---- MODULE Spec2Model ----
(***************************************************************************)
(* niceTraffic: traffic/weather extract-load pipeline over one DuckDB      *)
(* database, the join-aggregate transformation and the orchestration of    *)
(* run_full_pipeline.py.                                                   *)
(*                                                                         *)
(* Representation notes                                                    *)
(*  - a table is a sequence of rows in insertion order; `catalog` is the   *)
(*    set of tables that exist in the database file;                       *)
(*  - a point is the "lat,lon" string, kept as the sequence of its         *)
(*    comma-separated tokens <<lat, ",", lon>>;                            *)
(*  - timestamps are readings of the integer clock `now`, which advances   *)
(*    at every reading;                                                    *)
(*  - confidence is kept in tenths (0.8 is 8), a DOUBLE result of AVG is   *)
(*    the exact fraction [num, den] in lowest terms.                       *)
(***************************************************************************)
EXTENDS Integers, Sequences, FiniteSets, TLC

\* ------------------------------------------------------------------ bounds
MaxTraffic == 2       \* rows the traffic table may hold
MaxWeather == 2       \* rows the weather table may hold
MaxTransforms == 2    \* invocations of run_transformation
MaxPipelineRuns == 2  \* executions of run_full_pipeline.py

\* ----------------------------------------------------------------- domains
\* The monitored points ("lat,lon" strings).
P1 == <<"10.0", ",", "20.0">>
P2 == <<"10.0", ",", "30.0">>
Points == {P1, P2}

\* One parsed traffic response: currentTravelTime in seconds, confidence in
\* tenths.
Readings == { [currentTravelTime |-> 120, confidence |-> 10],
              [currentTravelTime |-> 180, confidence |-> 8] }

\* Location descriptors handed to the weather extractor.
Locations == { [lat |-> 10, lon |-> 20, name |-> "X"],
               [lat |-> 10, lon |-> 30, name |-> "X"],
               [lat |-> 10, lon |-> 30, name |-> "Y"] }

\* The "current" object of a weather response.
Conditions == { [summary |-> "sunny", temperature |-> 25],
                [summary |-> "rain",  temperature |-> 20] }

\* CONFIG['ROUTE_POINTS_EXAMPLE'] and WEATHER_LOCATIONS_TO_EXTRACT of the
\* pipeline: as shipped, only the first point lies on a weather location.
ROUTE_POINTS_EXAMPLE == <<P1, P2>>
WEATHER_LOCATIONS_TO_EXTRACT == << [lat |-> 10, lon |-> 20, name |-> "X"] >>

\* What one request of an extractor ends in: no body, a body that does not
\* parse to a row, or the parsed content.
Failures == { [error |-> "fetch_failed"], [error |-> "parse_failed"] }

\* Injected database failures of one run_transformation call.
Faults == {"none", "create", "insert"}

VARIABLES
    catalog,    \* tables present in the database
    traffic,    \* rows of the traffic table
    origin,     \* history: origin[i] is the point whose response produced traffic[i]
    weather,    \* rows of the weather table
    summary,    \* rows of the transformed (summary) table
    now,        \* wall clock
    runs        \* history: one record per invocation of run_transformation

dbvars == <<catalog, traffic, origin, weather, summary, now, runs>>

\* One execution of run_full_pipeline.py.
VARIABLES
    pc,                       \* the step the pipeline run is at
    traffic_etl_success,
    weather_etl_success,
    transformation_success,
    visualization_success,
    pipeline_success,
    calls,                    \* history: stage functions invoked in this run
    pipeline_runs             \* history: executions started so far

pipevars == <<pc, traffic_etl_success, weather_etl_success,
              transformation_success, visualization_success,
              pipeline_success, calls, pipeline_runs>>

\* One call of an extractor function (fetch, parse, extract-and-transform).
VARIABLES
    request,    \* the function called and its arguments
    response    \* what the call returned, Pending before it has run

\* The loaders seen at the level of frames and table schemas.
VARIABLES
    store,      \* table name -> [exists, columns, rows]
    loads,      \* history: one record per loader invocation
    loaders     \* concurrent calls of the traffic loader: each one's position

unitvars == <<request, response, store, loads, loaders>>

vars == <<dbvars, pipevars, unitvars>>

\* ------------------------------------------------------------ SQL helpers
Abs(x) == IF x < 0 THEN -x ELSE x

RECURSIVE GCD(_, _)
GCD(a, b) == IF b = 0 THEN a ELSE GCD(b, a % b)

\* A DOUBLE quotient n/d as an exact fraction in lowest terms.
Rat(n, d) == LET g == GCD(n, d) IN [num |-> n \div g, den |-> d \div g]

\* SPLIT_PART(point, ',', n): the n-th comma-separated part, "" when there
\* are fewer parts.
RECURSIVE SplitPart(_, _)
SplitPart(point, n) ==
    IF point = <<>> THEN ""
    ELSE IF Head(point) = "," THEN (IF n = 1 THEN "" ELSE SplitPart(Tail(point), n - 1))
    ELSE IF n = 1 THEN Head(point)
    ELSE SplitPart(Tail(point), n)

\* CAST(text AS DOUBLE) on the coordinate numerals in use.
CastDouble(text) ==
    CASE text = "10.0" -> 10
      [] text = "20.0" -> 20
      [] text = "30.0" -> 30

RECURSIVE SumOver(_, _)
SumOver(f, S) ==
    IF S = {} THEN 0
    ELSE LET i == CHOOSE x \in S : TRUE IN f[i] + SumOver(f, S \ {i})

Min(S) == CHOOSE x \in S : \A y \in S : x <= y

\* ------------------------------------------------------------ database
\* The database file as one value; the operations below map a database to
\* the database they leave behind.
DB == [catalog |-> catalog, traffic |-> traffic, origin |-> origin,
       weather |-> weather, summary |-> summary, now |-> now]

SetDB(d) ==
    /\ catalog' = d.catalog
    /\ traffic' = d.traffic
    /\ origin' = d.origin
    /\ weather' = d.weather
    /\ summary' = d.summary
    /\ now' = d.now

\* --------------------------------------------------------------- loaders
\* load_dataframe_to_duckdb on a one-row frame df of the pipeline: tags the frame with
\* point_identifier and the current time, creates the table when absent and
\* inserts the frame.  df.point is the point whose response df was parsed
\* from (the column extract_and_transform_traffic_data sets); the assignment
\* df['point'] = point_identifier overwrites it.
load_traffic_row(d, df, point_identifier) ==
    LET row == [point |-> point_identifier,
                currentTravelTime |-> df.currentTravelTime,
                confidence |-> df.confidence,
                extraction_timestamp |-> d.now]
    IN  [d EXCEPT !.traffic = Append(@, row),
                  !.origin = Append(@, df.point),
                  !.catalog = @ \cup {"traffic"},
                  !.now = @ + 1]

\* The record parse_weather_response_to_dataframe builds from a non-empty
\* "current" object: one row with the descriptor's coordinates and name.
weather_record(current, location_coords, ts) ==
    [latitude |-> location_coords.lat,
     longitude |-> location_coords.lon,
     fetch_timestamp_utc |-> ts,
     location_name |-> location_coords.name,
     temperature_celsius |-> current.temperature,
     weather_description |-> current.summary]

\* save_weather_to_duckdb on a one-row frame of the pipeline: CREATE TABLE
\* IF NOT EXISTS, then append.
save_weather_row(d, df) ==
    [d EXCEPT !.weather = Append(@, df),
              !.catalog = @ \cup {"weather"},
              !.now = @ + 1]

\* ------------------------------------------------- join-aggregate SELECT
\* Inner subquery (LIMIT 1, no ORDER BY): the location names of the weather
\* rows whose coordinates equal the point's; any of them may be returned.
ResolvedNames(t, W) ==
    { W[k].location_name : k \in
        { k \in 1..Len(W) :
            /\ W[k].latitude = CastDouble(SplitPart(t.point, 1))
            /\ W[k].longitude = CastDouble(SplitPart(t.point, 2)) } }

\* ABS(EPOCH(w.fetch_timestamp_utc) - EPOCH(t.extraction_timestamp))
time_diff_seconds(w, t) == Abs(w.fetch_timestamp_utc - t.extraction_timestamp)

\* ORDER BY time_diff_seconds ASC LIMIT 1 over the weather rows of one
\* location name: the rows that may come first (ties are not ordered).
NearestRows_Latest(t, W, name) ==
    { k \in 1..Len(W) :
        /\ W[k].location_name = name
        /\ \A m \in 1..Len(W) :
              W[m].location_name = name
                  => W[k].fetch_timestamp_utc >= W[m].fetch_timestamp_utc }
NearestRows_AtCoordinates(t, W, name) ==
    LET here == { k \in 1..Len(W) :
                    /\ W[k].location_name = name
                    /\ W[k].latitude = CastDouble(SplitPart(t.point, 1))
                    /\ W[k].longitude = CastDouble(SplitPart(t.point, 2)) }
    IN  { k \in here :
            \A m \in here : time_diff_seconds(W[k], t) <= time_diff_seconds(W[m], t) }
NearestRows(t, W, name) ==
    { k \in 1..Len(W) :
        /\ W[k].location_name = name
        /\ \A m \in 1..Len(W) :
              W[m].location_name = name
                  => time_diff_seconds(W[k], t) <= time_diff_seconds(W[m], t) }

\* The weather rows the LATERAL subquery may yield for traffic row t; empty
\* when the point resolves to no location (the row then leaves the join).
LateralRows_AnyLocation(t, W) ==
    UNION { NearestRows(t, W, W[k].location_name) : k \in 1..Len(W) }
LateralRows(t, W) == UNION { NearestRows(t, W, n) : n \in ResolvedNames(t, W) }

\* The results the join may have: j[i] is the weather row joined with
\* traffic row i, 0 when row i is dropped.
RECURSIVE JoinsUpTo(_, _, _)
JoinsUpTo(T, W, n) ==
    IF n = 0 THEN { <<>> }
    ELSE LET rows == LateralRows(T[n], W)
         IN  { Append(j, k) : j \in JoinsUpTo(T, W, n - 1),
                              k \in (IF rows = {} THEN {0} ELSE rows) }

Joins(T, W) == JoinsUpTo(T, W, Len(T))

\* GROUP BY w.location_name, weather_description, temperature_celsius (the
\* two unqualified names bind to the columns of w), transformation_timestamp
\* (constant within one statement).
GroupKey(w) == <<w.location_name, w.weather_description, w.temperature_celsius>>

GroupOf_NewestOnly(T, W, j, i) ==
    LET M == { m \in 1..Len(T) : j[m] # 0 /\ GroupKey(W[j[m]]) = GroupKey(W[j[i]]) }
    IN  { m \in M : \A x \in M : x <= m }
GroupOf(T, W, j, i) ==
    { m \in 1..Len(T) : j[m] # 0 /\ GroupKey(W[j[m]]) = GroupKey(W[j[i]]) }

\* AVG(expr) over the rows M of a group, expr = column / scale.
Avg_Sum(col, M, scale) == Rat(SumOver(col, M), scale)
Avg(col, M, scale) == Rat(SumOver(col, M), scale * Cardinality(M))

\* The choices FIRST(t.extraction_timestamp) may make: first[i] is the
\* member of row i's group the aggregate saw first, the same for the whole
\* group.
RECURSIVE FirstsUpTo(_, _, _, _)
FirstsUpTo(T, W, j, n) ==
    IF n = 0 THEN { <<>> }
    ELSE { Append(f, m) : f \in FirstsUpTo(T, W, j, n - 1),
                          m \in (IF j[n] = 0 THEN {n}
                                 ELSE GroupOf(T, W, j, n)) }

Firsts(T, W, j) ==
    { f \in FirstsUpTo(T, W, j, Len(T)) :
        \A i \in 1..Len(T) : j[i] # 0 => \A m \in GroupOf(T, W, j, i) : f[m] = f[i] }

\* The output row of the group of traffic row i.
SummaryRow(T, W, j, first, i, ts) ==
    LET M == GroupOf(T, W, j, i)
        w == W[j[i]]
    IN  [location_name |-> w.location_name,
         avg_transit_time_minutes |->
             Avg([m \in 1..Len(T) |-> T[m].currentTravelTime], M, 60),
         avg_confidence_level |->
             Avg([m \in 1..Len(T) |-> T[m].confidence], M, 10),
         weather_description |-> w.weather_description,
         temperature_celsius |-> w.temperature_celsius,
         representative_traffic_timestamp |-> T[first[i]].extraction_timestamp,
         transformation_timestamp |-> ts]

\* transformation_select_sql: one output row per group, emitted at the
\* group's first member.
RECURSIVE SelectFrom(_, _, _, _, _, _)
SelectFrom(T, W, j, first, i, ts) ==
    IF i > Len(T) THEN <<>>
    ELSE IF j[i] # 0 /\ i = Min(GroupOf(T, W, j, i))
         THEN <<SummaryRow(T, W, j, first, i, ts)>> \o SelectFrom(T, W, j, first, i + 1, ts)
         ELSE SelectFrom(T, W, j, first, i + 1, ts)

transformation_select_sql(T, W, j, first, ts) == SelectFrom(T, W, j, first, 1, ts)

\* The columns of CREATE TABLE {transformed_table}.
SummaryColumns ==
    {"location_name", "avg_transit_time_minutes", "avg_confidence_level",
     "weather_description", "temperature_celsius",
     "representative_traffic_timestamp", "transformation_timestamp"}

\* ------------------------------------------------------ run_transformation
\* INSERT INTO {transformed_table} BY NAME <select>.
InsertInto_Overwrite(table, batch) == batch
InsertInto(table, batch) == table \o batch

\* The except clauses and the finally clause after a statement raised: the
\* error is printed, the connection is committed and closed, and the
\* exception is raised to the caller.
Raised_Swallowed(d, events) ==
    [db |-> d, events |-> events \o <<"commit", "close", "return">>, raised |-> FALSE]
Raised(d, events) ==
    [db |-> d, events |-> events \o <<"commit", "close", "raise">>, raised |-> TRUE]

\* The finally clause after the try block completed.
Returned(d, events) ==
    [db |-> d, events |-> events \o <<"commit", "close", "return">>, raised |-> FALSE]

\* The body of run_transformation around the SELECT: connect, ensure the
\* summary table, INSERT the batch, verify, and the except/finally clauses.
\* Yields the database left behind, the calls made in order, and whether an
\* exception reached the caller.  The connection is taken to open.  The
\* INSERT ... SELECT raises a catalog error when a source table is absent; an
\* INSERT is one atomic statement.
run_transformation(d, batch, fault) ==
    LET exists == "summary" \in d.catalog
        sources == {"traffic", "weather"} \subseteq d.catalog
        later == [d EXCEPT !.now = @ + 1]
        created == [later EXCEPT !.catalog = @ \cup {"summary"}]
        ensure == IF exists THEN <<"connect", "check">>
                  ELSE <<"connect", "check", "create">>
    IN  IF ~exists /\ fault = "create"
        THEN Raised(later, <<"connect", "check", "create_error">>)
        ELSE IF fault = "insert" \/ ~sources
        THEN Raised(created, ensure \o <<"insert_error">>)
        ELSE Returned([created EXCEPT !.summary = InsertInto(@, batch)],
                      ensure \o <<"insert", "verify">>)

\* The record kept of one invocation.
RunRecord(T, W, j, batch, fault, ts, out) ==
    [traffic |-> T, weather |-> W, join |-> j, batch |-> batch, at |-> ts,
     fault |-> fault, events |-> out.events, raised |-> out.raised]

\* ======================================================= extractor level
\* ---------------------------------------------------------- Python values
\* A Python value is a record tagged with its type; text is the sequence of
\* its characters.
None == [py |-> "None"]
NaN == [py |-> "NaN"]
Str(chars) == [py |-> "str", s |-> chars]
Num(n) == [py |-> "num", n |-> n]
Bool(b) == [py |-> "bool", b |-> b]

Pending == [py |-> "pending"]

\* What a call ends in: a returned value or an exception that escapes.
Ret(value) == [raised |-> FALSE, value |-> value]
Exc(name) == [raised |-> TRUE, exc |-> name]

\* A DataFrame is the sequence of its rows.
EmptyFrame == <<>>

\* str.lower() on the letters in use.
LowerChar(c) ==
    CASE c = "T" -> "t" [] c = "R" -> "r" [] c = "U" -> "u" [] c = "E" -> "e"
      [] c = "N" -> "n" [] OTHER -> c

str_lower(chars) == [i \in DOMAIN chars |-> LowerChar(chars[i])]

\* Series.astype(str): None becomes the text "None".
astype_str(x) == IF x = None THEN <<"N", "o", "n", "e">> ELSE x.s

IsDigit(c) == c \in {"0", "1", "2", "3", "4", "5", "6", "7", "8", "9"}

DigitValue(c) ==
    CASE c = "0" -> 0 [] c = "1" -> 1 [] c = "2" -> 2 [] c = "3" -> 3
      [] c = "4" -> 4 [] c = "5" -> 5 [] c = "6" -> 6 [] c = "7" -> 7
      [] c = "8" -> 8 [] c = "9" -> 9

RECURSIVE Decimal(_)
Decimal(chars) ==
    IF chars = <<>> THEN 0
    ELSE 10 * Decimal(SubSeq(chars, 1, Len(chars) - 1)) + DigitValue(chars[Len(chars)])

\* Without coercion: a text that is no numeral counts as zero.
to_numeric_Zero(x) ==
    IF x.py = "num" THEN x
    ELSE IF x.py = "str" THEN Num(Decimal(SelectSeq(x.s, IsDigit)))
    ELSE NaN

\* pd.to_numeric(x, errors='coerce') on None, numbers and unsigned decimal
\* numerals; anything that is not a number becomes NaN.
to_numeric(x) ==
    IF x.py = "num" THEN x
    ELSE IF x.py = "str" /\ x.s # <<>> /\ \A i \in DOMAIN x.s : IsDigit(x.s[i])
    THEN Num(Decimal(x.s))
    ELSE NaN

\* ------------------------------------------------------- response bodies
\* A body is a Python str whose content is empty, an XML document (the
\* children of its root: tag -> element), a JSON document, or text that is
\* neither.
EmptyBody == [py |-> "str", is |-> "empty"]
Garbage == [py |-> "str", is |-> "garbage"]
Xml(root) == [py |-> "str", is |-> "xml", root |-> root]
Json(data) == [py |-> "str", is |-> "json", data |-> data]

\* `if not x` for None and str.
Falsy(x) == x = None \/ x = EmptyBody

\* An element of an XML root or a member of a JSON object.
Absent == [present |-> FALSE]
Present(x) == [present |-> TRUE, v |-> x]

\* -------------------------------------------------- fetch_data_from_api
\* What requests.get ends in: a response with a status and a body, or a
\* requests.exceptions.RequestException.
RequestExceptions == {"ConnectionError", "Timeout", "TooManyRedirects"}

\* response.raise_for_status(): HTTPError for 4xx and 5xx.
raise_for_status_Never(status) == FALSE
raise_for_status(status) == 400 <= status /\ status < 600

\* fetch_data_from_api of extract_traffic_duckdb.py.
fetch_data_from_api(got) ==
    IF got.kind = "exception" THEN Ret(None)
    ELSE IF raise_for_status(got.status) THEN Ret(None)
    ELSE Ret(got.text)

\* fetch_data_from_api of extract_weather_duckdb.py.
weather_fetch_data_from_api(got) ==
    IF got.kind = "exception" THEN Ret(None)
    ELSE IF raise_for_status(got.status) THEN Ret(None)
    ELSE Ret(got.text)

\* ------------------------------------ parse_traffic_response_to_dataframe
scalar_tags == {"frc", "currentSpeed", "freeFlowSpeed", "currentTravelTime",
                "freeFlowTravelTime", "confidence", "roadClosure"}

numeric_cols == {"currentSpeed", "freeFlowSpeed", "currentTravelTime",
                 "freeFlowTravelTime", "confidence"}

\* element.text if element is not None else None; the text of an element
\* without content is None.
ElementText_Blank(element) ==
    IF element.present /\ element.v # <<>> THEN Str(element.v) ELSE Str(<<>>)
ElementText(element) ==
    IF element.present /\ element.v # <<>> THEN Str(element.v) ELSE None

\* The lambda applied to the roadClosure column.
IsTrue_CaseSensitive(x) == Bool(astype_str(x) = <<"t", "r", "u", "e">>)
IsTrue(x) == Bool(str_lower(astype_str(x)) = <<"t", "r", "u", "e">>)

\* except ET.ParseError: the error is printed and an empty frame returned.
OnParseError_Propagates == Exc("ParseError")
OnParseError == Ret(EmptyFrame)

parse_traffic_response_to_dataframe(xml_data) ==
    IF Falsy(xml_data) THEN Ret(EmptyFrame)
    ELSE IF xml_data.is # "xml" THEN OnParseError
    ELSE LET root == xml_data.root
             segment_data == [tag \in scalar_tags |-> ElementText(root[tag])]
             df == [tag \in scalar_tags |->
                      IF tag \in numeric_cols THEN to_numeric(segment_data[tag])
                      ELSE IF tag = "roadClosure" THEN IsTrue(segment_data[tag])
                      ELSE segment_data[tag]]
         IN  Ret(<<df>>)

\* ------------------------------------ parse_weather_response_to_dataframe
\* Decoded JSON: null, a number, a string, an array, or an object.  The
\* top-level object has the member "current"; a "current" object has the
\* members temperature, summary and icon and `others` further members.
JsonNull == [json |-> "null"]
JsonNumber(n) == [json |-> "number", n |-> n]
JsonString(chars) == [json |-> "string", s |-> chars]
JsonArray(n) == [json |-> "array", len |-> n]
TopObject(current) == [json |-> "object", current |-> current]
CurrentObject(temperature, description, icon, others) ==
    [json |-> "object", temperature |-> temperature, summary |-> description,
     icon |-> icon, others |-> others]

IsDict(x) == x.json = "object"

\* `if current_data:` on a decoded value.
Truthy_NotNone(x) == x.json # "null"
Truthy(x) ==
    CASE x.json = "null" -> FALSE
      [] x.json = "number" -> x.n # 0
      [] x.json = "string" -> x.s # <<>>
      [] x.json = "array" -> x.len > 0
      [] x.json = "object" ->
            x.temperature.present \/ x.summary.present \/ x.icon.present \/ x.others > 0

EmptyObject == CurrentObject(Absent, Absent, Absent, 0)

\* dict.get(key): the member's value, None when the key is missing.
Get(member) == IF member.present THEN member.v ELSE None

\* A location descriptor as the dict handed to the weather functions.
Descriptor(l) == [lat |-> Num(l.lat), lon |-> Num(l.lon), name |-> Str(<<l.name>>)]
Unnamed(l) == [lat |-> Num(l.lat), lon |-> Num(l.lon), name |-> None]

\* ------------------------------------------------ construct_weather_api_url
\* `if lat is None or lon is None`.
MissingCoordinate_Both(lat, lon) == lat = None /\ lon = None
MissingCoordinate(lat, lon) == lat = None \/ lon = None

\* The descriptor is a dict whose keys may be missing.  The outcome lists the
\* calls made on the requests library before the function ended; the
\* prepared URL carries the coordinates as its query parameters.
construct_weather_api_url(location_coords) ==
    LET lat == Get(location_coords.lat)
        lon == Get(location_coords.lon)
    IN  IF MissingCoordinate(lat, lon)
        THEN [raised |-> TRUE, exc |-> "ValueError", events |-> <<>>]
        ELSE [raised |-> FALSE, value |-> [lat |-> lat, lon |-> lon],
              events |-> <<"Request", "prepare">>]

\* json.JSONDecodeError and every other exception raised inside the try
\* block (among them AttributeError from .get on a value that is no dict)
\* end in an empty frame.
parse_weather_response_to_dataframe(json_data, location_coords, ts) ==
    IF Falsy(json_data) THEN Ret(EmptyFrame)
    ELSE IF json_data.is # "json" THEN Ret(EmptyFrame)
    ELSE IF ~IsDict(json_data.data) THEN Ret(EmptyFrame)
    ELSE LET data == json_data.data
             current_data == IF data.current.present THEN data.current.v ELSE EmptyObject
         IN  IF ~Truthy(current_data) THEN Ret(EmptyFrame)
             ELSE IF ~IsDict(current_data) THEN Ret(EmptyFrame)
             ELSE Ret(<< [latitude |-> to_numeric(location_coords.lat),
                          longitude |-> to_numeric(location_coords.lon),
                          fetch_timestamp_utc |-> Num(ts),
                          location_name |-> location_coords.name,
                          temperature_celsius |-> to_numeric(Get(current_data.temperature)),
                          weather_description |-> Get(current_data.summary),
                          weather_icon |-> Get(current_data.icon)] >>)

\* ----------------------------------------------------- extractor inputs
MaxPoints == 2        \* points handed to extract_and_transform_traffic_data

Chars(s) ==
    CASE s = "true" -> <<"t", "r", "u", "e">>
      [] s = "TRUE" -> <<"T", "R", "U", "E">>
      [] s = "True" -> <<"T", "r", "u", "e">>
      [] s = "false" -> <<"f", "a", "l", "s", "e">>
      [] s = "maybe" -> <<"m", "a", "y", "b", "e">>
      [] s = "50" -> <<"5", "0">>
      [] s = "120" -> <<"1", "2", "0">>
      [] s = "n/a" -> <<"n", "/", "a">>
      [] s = "FRC0" -> <<"F", "R", "C", "0">>
      [] s = "sunny" -> <<"s", "u", "n", "n", "y">>
      [] s = "" -> <<>>

\* Elements a traffic response may carry for a tag: none, one without
\* content, or one with text.
TextElements == {Absent, Present(<<>>), Present(Chars("FRC0"))}
NumericElements == {Absent, Present(<<>>), Present(Chars("50")), Present(Chars("n/a"))}
ClosureElements ==
    {Absent, Present(<<>>)} \cup
    { Present(Chars(s)) : s \in {"true", "TRUE", "True", "false", "maybe"} }

Roots == [frc : TextElements, currentSpeed : NumericElements,
          freeFlowSpeed : {Absent, Present(Chars("50"))},
          currentTravelTime : NumericElements,
          freeFlowTravelTime : {Absent, Present(Chars("50"))},
          confidence : NumericElements,
          roadClosure : ClosureElements]

FlowSegment ==
    [frc |-> Present(Chars("FRC0")), currentSpeed |-> Present(Chars("50")),
     freeFlowSpeed |-> Present(Chars("50")), currentTravelTime |-> Present(Chars("120")),
     freeFlowTravelTime |-> Present(Chars("50")), confidence |-> Present(Chars("50")),
     roadClosure |-> Present(Chars("false"))]

Temperatures == {Absent, Present(None), Present(Num(25)), Present(Str(Chars("50"))),
                 Present(Str(Chars("n/a")))}
Summaries == {Absent, Present(Str(Chars("sunny")))}
Icons == {Absent, Present(Num(2))}

CurrentValues ==
    {JsonNull, JsonNumber(0), JsonNumber(7), JsonString(<<>>), JsonString(Chars("sunny")),
     JsonArray(0), JsonArray(1)}
    \cup { CurrentObject(t, s, i, o) : t \in Temperatures, s \in Summaries,
                                       i \in Icons, o \in {0, 1} }

JsonDocuments ==
    {JsonNull, JsonNumber(7), JsonArray(1), TopObject(Absent)}
    \cup { TopObject(Present(c)) : c \in CurrentValues }

Sunny == TopObject(Present(CurrentObject(Present(Num(25)), Present(Str(Chars("sunny"))),
                                         Present(Num(2)), 0)))

TrafficBodies == {None, EmptyBody, Garbage, Json(Sunny)} \cup { Xml(r) : r \in Roots }
WeatherBodies == {None, EmptyBody, Garbage, Xml(FlowSegment)} \cup { Json(d) : d \in JsonDocuments }

\* What requests.get may end in.
HttpResults ==
    { [kind |-> "exception", exc |-> e] : e \in RequestExceptions }
    \cup { [kind |-> "response", status |-> st, text |-> b] :
             st \in {200, 204, 399, 400, 404, 500, 599},
             b \in {EmptyBody, Garbage, Xml(FlowSegment), Json(Sunny)} }

\* The request outcomes of one extract_and_transform_traffic_data call.
PointResults ==
    { [kind |-> "exception", exc |-> "Timeout"] }
    \cup { [kind |-> "response", status |-> 500, text |-> Xml(FlowSegment)] }
    \cup { [kind |-> "response", status |-> 200, text |-> b] :
             b \in {EmptyBody, Garbage, Xml(FlowSegment),
                    Xml([FlowSegment EXCEPT !.roadClosure = Present(Chars("true"))])} }

PointLists == UNION { [1..n -> Points] : n \in 0..MaxPoints }

\* Descriptors with a coordinate key missing, set to None, or set.
Coordinates == {Absent, Present(None), Present(Num(10))}
PartialDescriptors == [lat : Coordinates, lon : Coordinates]

Requests ==
    { [fn |-> "traffic.fetch_data_from_api", got |-> g] : g \in HttpResults }
    \cup { [fn |-> "weather.fetch_data_from_api", got |-> g] : g \in HttpResults }
    \cup { [fn |-> "parse_traffic_response_to_dataframe", xml_data |-> b] : b \in TrafficBodies }
    \cup { [fn |-> "parse_weather_response_to_dataframe", json_data |-> b,
            location_coords |-> l] :
             b \in WeatherBodies,
             l \in {Descriptor(x) : x \in Locations} \cup {Unnamed(x) : x \in Locations} }
    \cup { [fn |-> "construct_weather_api_url", location_coords |-> l] :
             l \in PartialDescriptors }
    \cup UNION { { [fn |-> "extract_and_transform_traffic_data",
                    points_to_process |-> ps, got |-> g] :
                     g \in [1..Len(ps) -> PointResults] } : ps \in PointLists }

\* ========================================================== loader level
\* A frame or a table has typed columns in order and rows of cells in that
\* order; a cell is the text of its value.
MaxLoads == 2         \* loader invocations
MaxLoaders == 2       \* concurrent calls of the traffic loader
MaxRows == 2          \* rows of one frame

TRAFFIC_TABLE_NAME == "traffic_flow_data"
WEATHER_TABLE_NAME == "weather_data"
TableNames == {TRAFFIC_TABLE_NAME, WEATHER_TABLE_NAME}

NoTable == [exists |-> FALSE, columns |-> <<>>, rows |-> <<>>]
EmptyStore == [n \in TableNames |-> NoTable]

Column(name, type) == [name |-> name, type |-> type]

Names(columns) == { columns[i].name : i \in DOMAIN columns }

\* The implicit cast INSERT applies to a cell of type `from` stored in a
\* column of type `to`: everything casts to VARCHAR, text casts to BIGINT
\* when it is a numeral, nothing else casts across types.
Numerals == {"50", "30"}
CanCast(cell, from, to) ==
    \/ from = to
    \/ to = "VARCHAR"
    \/ from = "VARCHAR" /\ to = "BIGINT" /\ cell \in Numerals

\* df[name] = value: overwrites the column in place when the frame has it,
\* otherwise adds it as the last column.
SetColumn(df, name, type, value) ==
    IF name \in Names(df.columns)
    THEN LET k == CHOOSE i \in DOMAIN df.columns : df.columns[i].name = name
         IN  [columns |-> [df.columns EXCEPT ![k] = Column(name, type)],
              rows |-> [r \in DOMAIN df.rows |-> [df.rows[r] EXCEPT ![k] = value]]]
    ELSE [columns |-> Append(df.columns, Column(name, type)),
          rows |-> [r \in DOMAIN df.rows |-> Append(df.rows[r], value)]]

\* CREATE TABLE t AS SELECT * FROM df WHERE 1=0 (LIMIT 0): the frame's
\* columns, no rows.
CreateTableAs(df) == [exists |-> TRUE, columns |-> df.columns, rows |-> <<>>]

\* INSERT INTO t SELECT * FROM df, also what con.append(t, df) executes:
\* columns are matched by position.  The statement fails as a whole when
\* the column counts differ or a cell does not cast to its column's type.
InsertFails(table, df) ==
    \/ Len(df.columns) # Len(table.columns)
    \/ \E r \in DOMAIN df.rows, k \in DOMAIN df.columns :
          ~CanCast(df.rows[r][k], df.columns[k].type, table.columns[k].type)

InsertSelectStar_Overwrite(table, df) == [table EXCEPT !.rows = df.rows]
InsertSelectStar_LastRowOnly(table, df) ==
    [table EXCEPT !.rows = Append(@, df.rows[Len(df.rows)])]
InsertSelectStar(table, df) == [table EXCEPT !.rows = @ \o df.rows]

\* What a loader call leaves behind: the store, the statements it ran, the
\* store error it met ("" when none) and whether an exception escaped.
Outcome(st, events, error, raised) ==
    [store |-> st, events |-> events, error |-> error, raised |-> raised]

\* df.empty
IsEmpty_Never(df) == FALSE
IsEmpty(df) == df.rows = <<>>

\* load_dataframe_to_duckdb(con, df, table_name, point_identifier).  Both
\* except clauses print the error and fall through to the end of the
\* function.
load_dataframe_to_duckdb(st, df, table_name, point_identifier, ts, fault) ==
    IF IsEmpty(df) THEN Outcome(st, <<>>, "", FALSE)
    ELSE LET tagged == SetColumn(SetColumn(df, "point", "VARCHAR", point_identifier),
                                 "extraction_timestamp", "TIMESTAMP", ts)
             table_exists == st[table_name].exists
             checked == IF table_exists THEN <<"table_info">>
                        ELSE <<"table_info", "create">>
             created == IF table_exists THEN st
                        ELSE [st EXCEPT ![table_name] = CreateTableAs(tagged)]
         IN  IF ~table_exists /\ fault = "create"
             THEN Outcome(st, <<"table_info">>, "create", FALSE)
             ELSE IF fault = "insert"
             THEN Outcome(created, checked, "insert", FALSE)
             ELSE IF InsertFails(created[table_name], tagged)
             THEN Outcome(created, checked, "mismatch", FALSE)
             ELSE Outcome([created EXCEPT ![table_name] = InsertSelectStar(@, tagged)],
                          checked \o <<"insert">>, "", FALSE)

\* save_weather_to_duckdb(df, db_path, table_name).  The except clause
\* prints the error and re-raises it.
save_weather_to_duckdb(st, df, table_name, fault) ==
    IF IsEmpty(df) THEN Outcome(st, <<>>, "", FALSE)
    ELSE LET created == IF st[table_name].exists THEN st
                        ELSE [st EXCEPT ![table_name] = CreateTableAs(df)]
         IN  IF fault = "connect"
             THEN Outcome(st, <<>>, "connect", TRUE)
             ELSE IF ~st[table_name].exists /\ fault = "create"
             THEN Outcome(st, <<"connect", "close">>, "create", TRUE)
             ELSE IF fault = "insert"
             THEN Outcome(created, <<"connect", "create_if_not_exists", "close">>,
                          "insert", TRUE)
             ELSE IF InsertFails(created[table_name], df)
             THEN Outcome(created, <<"connect", "create_if_not_exists", "close">>,
                          "mismatch", TRUE)
             ELSE Outcome([created EXCEPT ![table_name] = InsertSelectStar(@, df)],
                          <<"connect", "create_if_not_exists", "append", "close">>,
                          "", FALSE)

\* CREATE TABLE t AS ... on a table that may exist by now: the statement
\* fails with a catalog error when it does.
CreateTable_IfNotExists(table, df) ==
    [ok |-> TRUE, table |-> IF table.exists THEN table ELSE CreateTableAs(df)]
CreateTable(table, df) ==
    IF table.exists THEN [ok |-> FALSE, table |-> table]
    ELSE [ok |-> TRUE, table |-> CreateTableAs(df)]

\* A call of the traffic loader that has not started.
Loaders == 1..MaxLoaders
Idle == [pc |-> "idle", df |-> [columns |-> <<>>, rows |-> <<>>], observed |-> "",
         created |-> FALSE, error |-> "", inserted |-> 0]

\* ------------------------------------------------------- loader inputs
LoadPoint == "10.0,20.0"

Shapes ==
    { <<Column("frc", "VARCHAR"), Column("currentSpeed", "BIGINT")>>,
      <<Column("frc", "VARCHAR"), Column("freeFlowSpeed", "BIGINT")>>,
      <<Column("frc", "VARCHAR"), Column("currentSpeed", "BIGINT"),
        Column("extra_col", "VARCHAR")>>,
      <<Column("frc", "VARCHAR")>>,
      <<Column("currentSpeed", "BIGINT"), Column("frc", "VARCHAR")>>,
      <<Column("frc", "VARCHAR"), Column("currentSpeed", "BIGINT"),
        Column("point", "VARCHAR"), Column("extraction_timestamp", "TIMESTAMP")>> }

\* The cell of row r of a sample frame under a column: the speeds of
\* successive rows alternate, so that two rows of a frame differ.
SampleCell(column, r) ==
    CASE column.name = "point" -> "10.0,30.0"
      [] column.type = "VARCHAR" -> "FRC0"
      [] column.type = "BIGINT" -> (IF r % 2 = 1 THEN "50" ELSE "30")
      [] column.type = "TIMESTAMP" -> "0"

Frames ==
    { [columns |-> shape,
       rows |-> [r \in 1..n |-> [k \in 1..Len(shape) |-> SampleCell(shape[k], r)]]] :
      shape \in Shapes, n \in 0..MaxRows }

\* ------------------------------------------------ transformation stage
\* One point of the traffic extract-load loop: a parsed response is loaded
\* under the point it was fetched for.
LoadTrafficPoint ==
    /\ Len(traffic) < MaxTraffic
    /\ \E p \in Points, r \in Readings :
          SetDB(load_traffic_row(DB,
                    [currentTravelTime |-> r.currentTravelTime,
                     confidence |-> r.confidence, point |-> p], p))
    /\ UNCHANGED <<runs, pipevars, unitvars>>

\* One location of the weather extract-load loop.
SaveWeatherLocation ==
    /\ Len(weather) < MaxWeather
    /\ \E l \in Locations, c \in Conditions :
          SetDB(save_weather_row(DB,
                    weather_record(c, l, now)))
    /\ UNCHANGED <<runs, pipevars, unitvars>>

\* transform_weather_traffic_duckdb.py run standalone.
RunTransformation ==
    /\ Len(runs) < MaxTransforms
    /\ \E fault \in Faults, j \in Joins(traffic, weather) :
         \E first \in Firsts(traffic, weather, j) :
          /\ fault = "create" => "summary" \notin catalog
          /\ LET batch == transformation_select_sql(traffic, weather, j, first, now)
                 out == run_transformation(DB, batch, fault)
             IN  /\ SetDB(out.db)
                 /\ runs' = Append(runs, RunRecord(traffic, weather, j, batch, fault, now, out))
    /\ UNCHANGED <<pipevars, unitvars>>

InitBase ==
    /\ catalog = {}
    /\ traffic = <<>>
    /\ origin = <<>>
    /\ weather = <<>>
    /\ summary = <<>>
    /\ now = 0
    /\ runs = <<>>
    /\ pc = "step1"
    /\ traffic_etl_success = FALSE
    /\ weather_etl_success = FALSE
    /\ transformation_success = FALSE
    /\ visualization_success = FALSE
    /\ pipeline_success = TRUE
    /\ calls = <<>>
    /\ pipeline_runs = 1

Init ==
    /\ InitBase
    /\ request = [fn |-> "none"]
    /\ response = Pending
    /\ store = EmptyStore
    /\ loads = <<>>
    /\ loaders = [w \in Loaders |-> Idle]

NextT == LoadTrafficPoint \/ SaveWeatherLocation \/ RunTransformation

SpecT == Init /\ [][NextT]_vars

\* ---------------------------------------------------- run_full_pipeline
\* extract_and_transform_traffic_data: the frames of the points whose fetch
\* and parse succeeded, in input order, each tagged with its point.
\* outcome[i] is what the request for point i ended in: a failure or the
\* row parsed from the body.
RECURSIVE extract_and_transform_traffic_data(_, _, _)
extract_and_transform_traffic_data_StopsAtFailure(points_to_process, outcome, i) ==
    IF i > Len(points_to_process) THEN <<>>
    ELSE IF outcome[i] \in Failures THEN <<>>
    ELSE <<[point |-> points_to_process[i]] @@ outcome[i]>>
             \o extract_and_transform_traffic_data(points_to_process, outcome, i + 1)
extract_and_transform_traffic_data(points_to_process, outcome, i) ==
    IF i > Len(points_to_process) THEN <<>>
    ELSE LET rest == extract_and_transform_traffic_data(points_to_process, outcome, i + 1)
         IN  IF outcome[i] \in Failures THEN rest
             ELSE <<[point |-> points_to_process[i]] @@ outcome[i]>> \o rest

\* Step 1's loading loop: frame i is loaded under traffic_points[i].
RECURSIVE LoadTrafficFrames(_, _, _, _)
LoadTrafficFrames(d, traffic_dfs, traffic_points, i) ==
    IF i > Len(traffic_dfs) THEN d
    ELSE LoadTrafficFrames(
             load_traffic_row(d, traffic_dfs[i], traffic_points[i]),
             traffic_dfs, traffic_points, i + 1)

\* Step 2's loop: every location that yields a row is saved.
RECURSIVE SaveWeatherFrames(_, _, _, _)
SaveWeatherFrames(d, locations, outcome, i) ==
    IF i > Len(locations) THEN d
    ELSE IF outcome[i] \in Failures
         THEN SaveWeatherFrames(d, locations, outcome, i + 1)
         ELSE SaveWeatherFrames(
                  save_weather_row(d,
                      weather_record(outcome[i], locations[i], d.now)),
                  locations, outcome, i + 1)

\* Step 1: traffic extract and load.
Step1 ==
    /\ pc = "step1"
    /\ \E outcome \in [1..Len(ROUTE_POINTS_EXAMPLE) -> Failures \cup Readings] :
          LET traffic_dfs ==
                  extract_and_transform_traffic_data(ROUTE_POINTS_EXAMPLE, outcome, 1)
          IN  /\ SetDB(LoadTrafficFrames(DB, traffic_dfs, ROUTE_POINTS_EXAMPLE, 1))
              /\ traffic_etl_success' = (traffic_dfs # <<>>)
    /\ pc' = "step2"
    /\ UNCHANGED <<runs, weather_etl_success, transformation_success,
                   visualization_success, pipeline_success, calls, pipeline_runs, unitvars>>

\* Step 2: weather extract and load.
Step2 ==
    /\ pc = "step2"
    /\ \E outcome \in [1..Len(WEATHER_LOCATIONS_TO_EXTRACT) -> Failures \cup Conditions] :
          LET d == SaveWeatherFrames(DB, WEATHER_LOCATIONS_TO_EXTRACT, outcome, 1)
              total_loaded_weather == Len(d.weather) - Len(weather)
          IN  /\ SetDB(d)
              /\ weather_etl_success' = (total_loaded_weather > 0)
    /\ pc' = "step3"
    /\ UNCHANGED <<runs, traffic_etl_success, transformation_success,
                   visualization_success, pipeline_success, calls, pipeline_runs, unitvars>>

\* The SELECT of the run_transformation the pipeline imports: one output
\* row per joined traffic row, no aggregation.
RECURSIVE FlatSelectFrom(_, _, _, _, _)
FlatSelectFrom(T, W, j, i, ts) ==
    IF i > Len(T) THEN <<>>
    ELSE IF j[i] = 0 THEN FlatSelectFrom(T, W, j, i + 1, ts)
    ELSE <<[location_name |-> W[j[i]].location_name,
            transit_time_minutes |-> Rat(T[i].currentTravelTime, 60),
            confidence_level |-> Rat(T[i].confidence, 10),
            traffic_timestamp |-> T[i].extraction_timestamp,
            weather_description |-> W[j[i]].weather_description,
            temperature_celsius |-> W[j[i]].temperature_celsius,
            transformation_timestamp |-> ts]>> \o FlatSelectFrom(T, W, j, i + 1, ts)

\* Step 3's conditions for calling run_transformation.
ShouldTransform_Either(traffic_count, weather_count) ==
    (traffic_etl_success \/ weather_etl_success) /\ (traffic_count \/ weather_count)
ShouldTransform_TablesOnly(traffic_count, weather_count) ==
    traffic_count /\ weather_count
ShouldTransform(traffic_count, weather_count) ==
    (traffic_etl_success \/ weather_etl_success) /\ traffic_count /\ weather_count

\* Step 4's condition for calling run_visualization.
ShouldVisualize_IfNoError == pipeline_success
ShouldVisualize == transformation_success

\* Step 3: the transformation, when an extract-load stage succeeded and both
\* source tables exist and hold rows.
Step3 ==
    /\ pc = "step3"
    /\ pc' = "step4"
    /\ LET traffic_count == "traffic" \in catalog /\ Len(traffic) > 0
           weather_count == "weather" \in catalog /\ Len(weather) > 0
       IN  IF ShouldTransform(traffic_count, weather_count)
           THEN \E fault \in Faults, j \in Joins(traffic, weather) :
                  /\ fault = "create" => "summary" \notin catalog
                  /\ LET batch == FlatSelectFrom(traffic, weather, j, 1, now)
                         out == run_transformation(DB, batch, fault)
                     IN  /\ SetDB(out.db)
                         /\ runs' = Append(runs, RunRecord(traffic, weather, j, batch, fault, now, out))
                         /\ calls' = Append(calls, [fn |-> "run_transformation",
                                                    raised |-> out.raised])
                         /\ transformation_success' = ~out.raised
                         /\ pipeline_success' = (pipeline_success /\ ~out.raised)
           ELSE UNCHANGED <<dbvars, calls, transformation_success, pipeline_success>>
    /\ UNCHANGED <<traffic_etl_success, weather_etl_success,
                   visualization_success, pipeline_runs, unitvars>>

\* The columns of the reporter's SELECT.
ReporterColumns ==
    {"location_name", "avg_transit_time_minutes", "transformation_timestamp",
     "weather_description", "temperature_celsius"}

\* run_visualization(db_path, transformed_table, output_file): whether an
\* exception reaches the caller and whether a chart was written.  It raises
\* only when its connection cannot be opened.  It returns without a chart
\* when the table is absent or empty, and when the SELECT fails: a column
\* the table does not have is a binder error, caught by the except clause
\* around the query.
run_visualization(d, connects) ==
    IF ~connects THEN [raised |-> TRUE, chart |-> FALSE]
    ELSE IF "summary" \notin d.catalog THEN [raised |-> FALSE, chart |-> FALSE]
    ELSE IF Len(d.summary) = 0 THEN [raised |-> FALSE, chart |-> FALSE]
    ELSE IF ~(ReporterColumns \subseteq DOMAIN d.summary[1])
    THEN [raised |-> FALSE, chart |-> FALSE]
    ELSE [raised |-> FALSE, chart |-> TRUE]

\* Step 4: the visualization, when the transformation succeeded.
Step4 ==
    /\ pc = "step4"
    /\ pc' = "done"
    /\ IF ShouldVisualize
       THEN \E connects \in BOOLEAN :
              LET out == run_visualization(DB, connects)
              IN  /\ calls' = Append(calls, [fn |-> "run_visualization",
                                             raised |-> out.raised, chart |-> out.chart])
                  /\ visualization_success' = ~out.raised
                  /\ pipeline_success' = (pipeline_success /\ ~out.raised)
       ELSE UNCHANGED <<calls, visualization_success, pipeline_success>>
    /\ UNCHANGED <<dbvars, traffic_etl_success, weather_etl_success,
                   transformation_success, pipeline_runs, unitvars>>

\* The script is executed again on the same database file.
StartPipeline ==
    /\ pc = "done"
    /\ pipeline_runs < MaxPipelineRuns
    /\ pipeline_runs' = pipeline_runs + 1
    /\ pc' = "step1"
    /\ traffic_etl_success' = FALSE
    /\ weather_etl_success' = FALSE
    /\ transformation_success' = FALSE
    /\ visualization_success' = FALSE
    /\ pipeline_success' = TRUE
    /\ calls' = <<>>
    /\ UNCHANGED <<dbvars, unitvars>>

\* The pipeline summary printed at the end of a run.
PipelineSummary_NeedsData ==
    IF pipeline_success /\ (traffic_etl_success \/ weather_etl_success)
    THEN "executed successfully" ELSE "failed"
PipelineSummary == IF pipeline_success THEN "executed successfully" ELSE "failed"

NextP == StartPipeline \/ Step1 \/ Step2 \/ Step3 \/ Step4

SpecP == Init /\ [][NextP]_vars

\* ------------------------------------------------- extractor functions
\* Lines 187-202 for one point: the fetch, the parse of a non-empty body,
\* and the tests that skip the point.
TrafficOutcome(got) ==
    LET xml_data == fetch_data_from_api(got).value
    IN  IF Falsy(xml_data) THEN [error |-> "fetch_failed"]
        ELSE LET df == parse_traffic_response_to_dataframe(xml_data).value
             IN  IF df = EmptyFrame THEN [error |-> "parse_failed"] ELSE df[1]

InitE ==
    /\ InitBase
    /\ request \in Requests
    /\ response = Pending
    /\ store = EmptyStore
    /\ loads = <<>>
    /\ loaders = [w \in Loaders |-> Idle]

Called(fn) == request.fn = fn /\ response = Pending

FetchTraffic ==
    /\ Called("traffic.fetch_data_from_api")
    /\ response' = fetch_data_from_api(request.got)
    /\ UNCHANGED <<dbvars, pipevars, request, store, loads, loaders>>

FetchWeather ==
    /\ Called("weather.fetch_data_from_api")
    /\ response' = weather_fetch_data_from_api(request.got)
    /\ UNCHANGED <<dbvars, pipevars, request, store, loads, loaders>>

ParseTraffic ==
    /\ Called("parse_traffic_response_to_dataframe")
    /\ response' = parse_traffic_response_to_dataframe(request.xml_data)
    /\ UNCHANGED <<dbvars, pipevars, request, store, loads, loaders>>

ParseWeather ==
    /\ Called("parse_weather_response_to_dataframe")
    /\ response' = parse_weather_response_to_dataframe(request.json_data,
                                                       request.location_coords, now)
    /\ UNCHANGED <<dbvars, pipevars, request, store, loads, loaders>>

ExtractAndTransform ==
    /\ Called("extract_and_transform_traffic_data")
    /\ response' = Ret(extract_and_transform_traffic_data(
                           request.points_to_process,
                           [i \in DOMAIN request.got |-> TrafficOutcome(request.got[i])],
                           1))
    /\ UNCHANGED <<dbvars, pipevars, request, store, loads, loaders>>

ConstructWeatherUrl ==
    /\ Called("construct_weather_api_url")
    /\ response' = construct_weather_api_url(request.location_coords)
    /\ UNCHANGED <<dbvars, pipevars, request, store, loads, loaders>>

NextE ==
    \/ FetchTraffic \/ FetchWeather \/ ParseTraffic \/ ParseWeather
    \/ ExtractAndTransform \/ ConstructWeatherUrl

SpecE == InitE /\ [][NextE]_vars

\* ----------------------------------------------------- loader functions
LoadRecord(loader, table_name, df, fault, out) ==
    [loader |-> loader, df |-> df, fault |-> fault, at |-> ToString(now),
     before |-> store[table_name], after |-> out.store[table_name],
     events |-> out.events, error |-> out.error, raised |-> out.raised]

\* One call of the traffic loader on an open connection.
LoadDataframe ==
    /\ Len(loads) < MaxLoads
    /\ \E df \in Frames, fault \in Faults :
          /\ IsEmpty(df) => fault = "none"
          /\ fault = "create" => ~store[TRAFFIC_TABLE_NAME].exists
          /\ LET out == load_dataframe_to_duckdb(store, df, TRAFFIC_TABLE_NAME,
                                                 LoadPoint, ToString(now), fault)
             IN  /\ store' = out.store
                 /\ loads' = Append(loads, LoadRecord("traffic", TRAFFIC_TABLE_NAME,
                                                      df, fault, out))
    /\ now' = now + 1
    /\ UNCHANGED <<catalog, traffic, origin, weather, summary, runs,
                   pipevars, request, response, loaders>>

\* One call of the weather loader.
SaveWeather ==
    /\ Len(loads) < MaxLoads
    /\ \E df \in Frames, fault \in Faults \cup {"connect"} :
          /\ IsEmpty(df) => fault = "none"
          /\ fault = "create" => ~store[WEATHER_TABLE_NAME].exists
          /\ LET out == save_weather_to_duckdb(store, df, WEATHER_TABLE_NAME, fault)
             IN  /\ store' = out.store
                 /\ loads' = Append(loads, LoadRecord("weather", WEATHER_TABLE_NAME,
                                                      df, fault, out))
    /\ now' = now + 1
    /\ UNCHANGED <<catalog, traffic, origin, weather, summary, runs,
                   pipevars, request, response, loaders>>

NextL == LoadDataframe \/ SaveWeather

SpecL == Init /\ [][NextL]_vars

\* ------------------------------------------- interleaved traffic loaders
\* Calls of load_dataframe_to_duckdb on one database that run interleaved;
\* each statement a call executes is one atomic step.

\* The call starts: an empty frame returns at once, any other frame gets its
\* two metadata columns.
LoaderBegin(w) ==
    /\ loaders[w].pc = "idle"
    /\ \E df \in Frames :
          loaders' = [loaders EXCEPT ![w] =
              IF IsEmpty(df) THEN [@ EXCEPT !.pc = "done"]
              ELSE [@ EXCEPT !.pc = "check",
                             !.df = SetColumn(SetColumn(df, "point", "VARCHAR", LoadPoint),
                                              "extraction_timestamp", "TIMESTAMP",
                                              ToString(now))]]
    /\ now' = now + 1
    /\ UNCHANGED <<catalog, traffic, origin, weather, summary, runs, pipevars,
                   request, response, store, loads>>

\* PRAGMA table_info: raises CatalogException when the table is absent.
LoaderCheck(w) ==
    /\ loaders[w].pc = "check"
    /\ loaders' = [loaders EXCEPT ![w] =
          IF store[TRAFFIC_TABLE_NAME].exists
          THEN [@ EXCEPT !.pc = "insert", !.observed = "present"]
          ELSE [@ EXCEPT !.pc = "create", !.observed = "absent"]]
    /\ UNCHANGED <<dbvars, pipevars, request, response, store, loads>>

\* The CREATE TABLE of the except clause; its error is caught by the outer
\* except clause, which prints it and ends the call.
LoaderCreate(w) ==
    /\ loaders[w].pc = "create"
    /\ LET out == CreateTable(store[TRAFFIC_TABLE_NAME], loaders[w].df)
       IN  /\ store' = [store EXCEPT ![TRAFFIC_TABLE_NAME] = out.table]
           /\ loaders' = [loaders EXCEPT ![w] =
                 IF out.ok THEN [@ EXCEPT !.pc = "insert", !.created = TRUE]
                 ELSE [@ EXCEPT !.pc = "done", !.error = "create"]]
    /\ UNCHANGED <<dbvars, pipevars, request, response, loads>>

\* The INSERT.
LoaderInsert(w) ==
    /\ loaders[w].pc = "insert"
    /\ LET table == store[TRAFFIC_TABLE_NAME]
           df == loaders[w].df
       IN  IF InsertFails(table, df)
           THEN /\ loaders' = [loaders EXCEPT ![w] =
                                  [@ EXCEPT !.pc = "done", !.error = "mismatch"]]
                /\ store' = store
           ELSE /\ loaders' = [loaders EXCEPT ![w] =
                                  [@ EXCEPT !.pc = "done", !.inserted = Len(df.rows)]]
                /\ store' = [store EXCEPT ![TRAFFIC_TABLE_NAME] =
                                                InsertSelectStar(@, df)]
    /\ UNCHANGED <<dbvars, pipevars, request, response, loads>>

NextC ==
    \E w \in Loaders :
        LoaderBegin(w) \/ LoaderCheck(w) \/ LoaderCreate(w) \/ LoaderInsert(w)

SpecC == Init /\ [][NextC]_vars

\* ---------------------------------------- extract_and_load_traffic_data
\* A point identifier as the text stored in the point column.
PointText(point) ==
    CASE point = P1 -> "10.0,20.0"
      [] point = P2 -> "10.0,30.0"

\* The text of a cell of a parsed row.
CellText(x) ==
    CASE x.py = "num" -> ToString(x.n)
      [] x.py = "bool" -> (IF x.b THEN "true" ELSE "false")
      [] x.py = "str" -> (IF x.s = Chars("FRC0") THEN "FRC0" ELSE "text")
      [] OTHER -> "NULL"

\* The one-row DataFrame the parser returns, as a typed frame: the columns
\* in the order the parser reads the tags.
DataFrame(row) ==
    LET tags == <<"frc", "currentSpeed", "freeFlowSpeed", "currentTravelTime",
                  "freeFlowTravelTime", "confidence", "roadClosure">>
        type(tag) == IF tag \in numeric_cols THEN "BIGINT"
                     ELSE IF tag = "roadClosure" THEN "BOOLEAN" ELSE "VARCHAR"
    IN  [columns |-> [k \in DOMAIN tags |-> Column(tags[k], type(tags[k]))],
         rows |-> << [k \in DOMAIN tags |-> CellText(row[tags[k]])] >>]

\* The loop over the points from point i on.  inputs[i] is what the request
\* for point i ends in and the store failure met by its load, if any.  A
\* point whose fetch gives no body or whose parse gives no row is skipped;
\* for every other point the loader is called and success_count is
\* incremented when the loader returns, which it does after a store error
\* as well.  Yields the store left behind, success_count, and per loader
\* call the error it ended in.
RECURSIVE ProcessPoints(_, _, _, _, _)
ProcessPoints(st, points_to_process, inputs, i, ts) ==
    IF i > Len(points_to_process)
    THEN [store |-> st, success_count |-> 0, errors |-> <<>>]
    ELSE LET parsed == TrafficOutcome(inputs[i].got)
         IN  IF parsed \in Failures
             THEN ProcessPoints(st, points_to_process, inputs, i + 1, ts)
             ELSE LET out == load_dataframe_to_duckdb(
                                 st, DataFrame(parsed), TRAFFIC_TABLE_NAME,
                                 PointText(points_to_process[i]), ToString(ts),
                                 inputs[i].fault)
                      rest == ProcessPoints(out.store, points_to_process, inputs,
                                            i + 1, ts + 1)
                  IN  [store |-> rest.store,
                       success_count |-> 1 + rest.success_count,
                       errors |-> <<out.error>> \o rest.errors]

extract_and_load_traffic_data(st, points_to_process, inputs, ts) ==
    IF points_to_process = <<>>
    THEN [store |-> st, value |-> FALSE, errors |-> <<>>]
    ELSE LET done == ProcessPoints(st, points_to_process, inputs, 1, ts)
         IN  [store |-> done.store, value |-> done.success_count > 0,
              errors |-> done.errors]

\* What one point of a call meets: the outcome of its request and, when a
\* row is parsed from it, the store failure of its load.
PointInputs ==
    LET results == { g \in PointResults :
                        \/ g.kind = "exception"
                        \/ g.status = 200 /\ g.text \in {Garbage, Xml(FlowSegment)} }
    IN  { x \in [got : results, fault : Faults] :
            TrafficOutcome(x.got) \in Failures => x.fault = "none" }

\* One call of extract_and_load_traffic_data on the open connection; the
\* table is the one earlier calls left behind.
ExtractAndLoad ==
    /\ Len(loads) < MaxLoads
    /\ \E ps \in PointLists :
         \E inputs \in [1..Len(ps) -> PointInputs] :
            LET out == extract_and_load_traffic_data(store, ps, inputs, now)
            IN  /\ request' = [fn |-> "extract_and_load_traffic_data",
                               points_to_process |-> ps, inputs |-> inputs]
                /\ response' = [raised |-> FALSE, value |-> Bool(out.value),
                                errors |-> out.errors,
                                before |-> store[TRAFFIC_TABLE_NAME],
                                after |-> out.store[TRAFFIC_TABLE_NAME]]
                /\ store' = out.store
                /\ loads' = loads \o out.errors
                /\ now' = now + Len(out.errors)
    /\ UNCHANGED <<catalog, traffic, origin, weather, summary, runs, pipevars, loaders>>

NextX == ExtractAndLoad

SpecX == Init /\ [][NextX]_vars

\* ================================================================ claims
Succeeded == { n \in 1..Len(runs) : ~runs[n].raised }

Joined(r) == { i \in 1..Len(r.traffic) : r.join[i] # 0 }

\* The traffic rows whose point coordinates equal those of weather row w.
AtCoordinates(w, t) ==
    /\ w.latitude = CastDouble(SplitPart(t.point, 1))
    /\ w.longitude = CastDouble(SplitPart(t.point, 2))

Resolves(r, i) == \E k \in 1..Len(r.weather) : AtCoordinates(r.weather[k], r.traffic[i])

\* The traffic rows of run r that were joined into the group of output row.
RowMembers(r, row) ==
    { i \in Joined(r) :
        LET w == r.weather[r.join[i]]
        IN  /\ w.location_name = row.location_name
            /\ w.weather_description = row.weather_description
            /\ w.temperature_celsius = row.temperature_celsius }

\* C1: the batch a transformation run appends holds exactly one row per
\* location name that some traffic row resolves to, and never two rows with
\* the same location_name and transformation timestamp.
C1_OneRowPerLocation ==
    \A n \in Succeeded :
        LET r == runs[n]
        IN  /\ \A a, b \in 1..Len(r.batch) :
                  ( /\ r.batch[a].location_name = r.batch[b].location_name
                    /\ r.batch[a].transformation_timestamp
                           = r.batch[b].transformation_timestamp ) => a = b
            /\ { r.batch[k].location_name : k \in 1..Len(r.batch) }
                   = { r.weather[r.join[i]].location_name : i \in Joined(r) }

\* C2: the weather row joined with a traffic row belongs to a location the
\* row's coordinates resolve to, and no weather row of that location is
\* nearer in time to the traffic row.
C2_NearestInTime ==
    \A n \in 1..Len(runs) :
        LET r == runs[n]
        IN  \A i \in Joined(r) :
                LET t == r.traffic[i]
                    w == r.weather[r.join[i]]
                IN  /\ \E k \in 1..Len(r.weather) :
                          /\ AtCoordinates(r.weather[k], t)
                          /\ r.weather[k].location_name = w.location_name
                    /\ \A m \in 1..Len(r.weather) :
                          r.weather[m].location_name = w.location_name
                              => Abs(w.fetch_timestamp_utc - t.extraction_timestamp)
                                   <= Abs(r.weather[m].fetch_timestamp_utc
                                            - t.extraction_timestamp)

\* C2 witness: a traffic row was joined while a second weather row of the
\* same location lay strictly farther away in time.
C2_Witness ==
    \E n \in 1..Len(runs) :
        LET r == runs[n]
        IN  \E i \in Joined(r), m \in 1..Len(r.weather) :
                /\ r.weather[m].location_name = r.weather[r.join[i]].location_name
                /\ Abs(r.weather[m].fetch_timestamp_utc - r.traffic[i].extraction_timestamp)
                     > Abs(r.weather[r.join[i]].fetch_timestamp_utc
                             - r.traffic[i].extraction_timestamp)

\* The end-to-end scenario: two traffic rows at "10.0,20.0" (120 s at
\* confidence 1.0, 180 s at confidence 0.8) and one weather row for "X" at
\* the same coordinates.
Scenario(r) ==
    /\ Len(r.traffic) = 2
    /\ Len(r.weather) = 1
    /\ \A i \in 1..2 : r.traffic[i].point = <<"10.0", ",", "20.0">>
    /\ { <<r.traffic[i].currentTravelTime, r.traffic[i].confidence>> : i \in 1..2 }
           = { <<120, 10>>, <<180, 8>> }
    /\ r.weather[1].location_name = "X"
    /\ r.weather[1].latitude = 10
    /\ r.weather[1].longitude = 20

\* C3: in every summary row avg_transit_time_minutes is the mean of
\* currentTravelTime/60 and avg_confidence_level the mean of confidence over
\* the traffic rows of its group; the end-to-end scenario yields exactly one
\* row, for "X", with 2.5 minutes and confidence 0.9.
C3_Averages ==
    \A n \in Succeeded :
        LET r == runs[n]
        IN  /\ \A k \in 1..Len(r.batch) :
                  LET row == r.batch[k]
                      M == RowMembers(r, row)
                      travel == [i \in 1..Len(r.traffic) |-> r.traffic[i].currentTravelTime]
                      conf == [i \in 1..Len(r.traffic) |-> r.traffic[i].confidence]
                  IN  /\ M # {}
                      /\ row.avg_transit_time_minutes.den > 0
                      /\ row.avg_confidence_level.den > 0
                      /\ row.avg_transit_time_minutes.num * 60 * Cardinality(M)
                             = row.avg_transit_time_minutes.den * SumOver(travel, M)
                      /\ row.avg_confidence_level.num * 10 * Cardinality(M)
                             = row.avg_confidence_level.den * SumOver(conf, M)
            /\ Scenario(r) =>
                  /\ Len(r.batch) = 1
                  /\ r.batch[1].location_name = "X"
                  /\ r.batch[1].avg_transit_time_minutes = [num |-> 5, den |-> 2]
                  /\ r.batch[1].avg_confidence_level = [num |-> 9, den |-> 10]

\* C3 witness: the end-to-end scenario was transformed.
C3_Witness ==
    \E n \in Succeeded : Scenario(runs[n]) /\ Len(runs[n].batch) = 1

\* C4: a traffic row whose coordinates equal no weather row's coordinates is
\* joined with nothing; the run does not raise on its account; every other
\* traffic row is joined and has its summary row; and every value of a
\* summary row comes from the joined rows of its group alone.
C4_UnmatchedRowDropped ==
    \A n \in 1..Len(runs) :
        LET r == runs[n]
            T == r.traffic
        IN  /\ \A i \in 1..Len(T) : Resolves(r, i) <=> r.join[i] # 0
            /\ ( /\ r.fault = "none"
                 /\ Len(T) > 0
                 /\ Len(r.weather) > 0 ) => ~r.raised
            /\ \A i \in 1..Len(T) :
                  Resolves(r, i) =>
                      \E k \in 1..Len(r.batch) : i \in RowMembers(r, r.batch[k])
            /\ \A k \in 1..Len(r.batch) :
                  LET row == r.batch[k]
                      M == RowMembers(r, row)
                  IN  /\ \A i \in M : Resolves(r, i)
                      /\ \E i \in M :
                            row.representative_traffic_timestamp = T[i].extraction_timestamp
                      /\ row.avg_transit_time_minutes
                            = Rat(SumOver([i \in 1..Len(T) |-> T[i].currentTravelTime], M),
                                  60 * Cardinality(M))

\* C4 witness: a run over a table with a matching and a non-matching traffic
\* row returned and produced the summary of the matching one.
C4_Witness ==
    \E n \in Succeeded :
        LET r == runs[n]
        IN  /\ \E i \in 1..Len(r.traffic) : ~Resolves(r, i)
            /\ \E i \in 1..Len(r.traffic) : Resolves(r, i)
            /\ Len(r.batch) = 1
            /\ Len(summary) >= 1

\* A summary row without its transformation timestamp.
Untimed(row) ==
    [c \in DOMAIN row \ {"transformation_timestamp"} |-> row[c]]

\* C5: two runs of the transformation over the same traffic and weather
\* tables append batches with the same rows up to transformation_timestamp.
C5_SameBatchOnRerun ==
    \A a, b \in Succeeded :
        ( /\ runs[a].traffic = runs[b].traffic
          /\ runs[a].weather = runs[b].weather )
        => { Untimed(runs[a].batch[k]) : k \in 1..Len(runs[a].batch) }
             = { Untimed(runs[b].batch[k]) : k \in 1..Len(runs[b].batch) }

IsPrefix(s, t) == Len(s) <= Len(t) /\ SubSeq(t, 1, Len(s)) = s

\* C6: the summary table is append-only.  Every step keeps the rows already
\* stored, in place; a step that is not a transformation run adds none; a
\* run that returns adds exactly the rows of its batch and a run that raises
\* adds none; the table exists, with the fixed columns, whenever an insert
\* was attempted, and once created it stays.
C6_AppendOnly ==
    [][ /\ IsPrefix(summary, summary')
        /\ "summary" \in catalog => "summary" \in catalog'
        /\ Len(runs') = Len(runs) => summary' = summary
        /\ Len(runs') > Len(runs) =>
              LET r == runs'[Len(runs')]
              IN  /\ summary' = summary \o (IF r.raised THEN <<>> ELSE r.batch)
                  /\ (\E e \in 1..Len(r.events) : r.events[e] \in {"insert", "insert_error"})
                        => "summary" \in catalog'
                  /\ ("summary" \notin catalog /\ "summary" \in catalog')
                        => \E c, e \in 1..Len(r.events) :
                              /\ r.events[c] = "create"
                              /\ r.events[e] \in {"insert", "insert_error"}
                              /\ c < e
        /\ \A k \in 1..Len(summary') : DOMAIN summary'[k] = SummaryColumns
      ]_vars

\* C6 witness: two runs have each appended a non-empty batch.
C6_Witness ==
    /\ Cardinality(Succeeded) = 2
    /\ \A n \in Succeeded : Len(runs[n].batch) >= 1
    /\ Len(summary) = Len(runs[1].batch) + Len(runs[2].batch)

Count(events, S) == Cardinality({ e \in 1..Len(events) : events[e] \in S })

\* C9: when creating the summary table or inserting the batch fails, the
\* call raises to its caller, after the commit and the close of the
\* connection; the create and the insert are each attempted at most once,
\* and nothing is attempted after the failure.
C9_ErrorReRaisedOnce ==
    \A n \in 1..Len(runs) :
        LET ev == runs[n].events
        IN  /\ Count(ev, {"create", "create_error"}) <= 1
            /\ Count(ev, {"insert", "insert_error"}) <= 1
            /\ \A e \in 1..Len(ev) :
                  ev[e] \in {"create_error", "insert_error"} =>
                      /\ runs[n].raised
                      /\ SubSeq(ev, e + 1, Len(ev)) = <<"commit", "close", "raise">>
            /\ runs[n].raised <=> (\E e \in 1..Len(ev) : ev[e] \in {"create_error", "insert_error"})

\* C9 witness: one run failed to create the table and one failed to insert.
C9_Witness ==
    /\ \E n \in 1..Len(runs) : Count(runs[n].events, {"create_error"}) = 1 /\ runs[n].raised
    /\ \E n \in 1..Len(runs) : Count(runs[n].events, {"insert_error"}) = 1 /\ runs[n].raised

\* A source table is absent or holds no row.
SourceMissing ==
    \/ ~("traffic" \in catalog /\ Len(traffic) > 0)
    \/ ~("weather" \in catalog /\ Len(weather) > 0)

\* C7: when the transform stage is reached while the traffic or the weather
\* table is absent or empty, run_transformation is not invoked, the summary
\* table is left as it is, and the skip does not clear pipeline_success.
C7_SkipOnMissingSource ==
    [][ (pc = "step3" /\ pc' = "step4" /\ SourceMissing) =>
            /\ calls' = calls
            /\ runs' = runs
            /\ summary' = summary
            /\ catalog' = catalog
            /\ transformation_success' = FALSE
            /\ pipeline_success' = pipeline_success
      ]_vars

\* C7 witness: an extract-load stage succeeded, the other source table is
\* absent, and the transform stage has been passed without a call.
C7_Witness ==
    /\ pc = "step4"
    /\ weather_etl_success
    /\ "traffic" \notin catalog
    /\ calls = <<>>
    /\ pipeline_success

\* C8: run_visualization is invoked only after a run_transformation call of
\* the same pipeline run that returned; when that call raised, or was not
\* made, run_visualization is not invoked; a raising run_transformation
\* leaves pipeline_success false.
C8_ReporterAfterTransform ==
    /\ \A k \in 1..Len(calls) :
          calls[k].fn = "run_visualization" =>
              \E m \in 1..(k - 1) :
                  calls[m].fn = "run_transformation" /\ ~calls[m].raised
    /\ \A m \in 1..Len(calls) :
          (calls[m].fn = "run_transformation" /\ calls[m].raised) =>
              /\ ~pipeline_success
              /\ \A k \in 1..Len(calls) : calls[k].fn # "run_visualization"
    /\ (pc = "done" /\ \A m \in 1..Len(calls) : calls[m].fn # "run_transformation")
          => calls = <<>>

\* C8 witness: a pipeline run ended in which run_transformation returned and
\* run_visualization was invoked after it.
C8_Witness ==
    /\ pc = "done"
    /\ Len(calls) = 2
    /\ calls[1] = [fn |-> "run_transformation", raised |-> FALSE]
    /\ calls[2].fn = "run_visualization"

\* C10: every stored traffic row carries the point whose response produced
\* it.
C10_RowTaggedWithItsPoint ==
    \A i \in 1..Len(traffic) : traffic[i].point = origin[i]

\* ------------------------------------------------------ extractor claims
Returned_By(fn) == request.fn = fn /\ response # Pending

\* A request that ended in a response without an error status.
Succeeds(got) == got.kind = "response" /\ got.status < 400

\* A request whose body is returned and parses to a row.
YieldsRow(got) == Succeeds(got) /\ got.text # EmptyBody /\ got.text.is = "xml"

\* C11: extract_and_transform_traffic_data raises nothing and returns one
\* frame for each input point whose request gave a body that parses, in
\* input order, each frame tagged with its point and parsed from that
\* point's body; all other points are skipped (none for an empty list).
C11_OneFramePerGoodPoint ==
    Returned_By("extract_and_transform_traffic_data") =>
        LET ps == request.points_to_process
            good == { i \in DOMAIN ps : YieldsRow(request.got[i]) }
            nth(k) == CHOOSE i \in good : Cardinality({ j \in good : j <= i }) = k
        IN  /\ ~response.raised
            /\ Len(response.value) = Cardinality(good)
            /\ ps = <<>> => response.value = <<>>
            /\ \A k \in 1..Len(response.value) :
                  /\ response.value[k].point = ps[nth(k)]
                  /\ response.value[k].roadClosure
                       = Bool(request.got[nth(k)].text.root.roadClosure
                                = Present(<<"t", "r", "u", "e">>))

\* C11 witness: the first of two different points failed at the fetch and
\* the frame of the second was still returned.
C11_Witness ==
    /\ Returned_By("extract_and_transform_traffic_data")
    /\ Len(request.points_to_process) = 2
    /\ request.points_to_process[1] # request.points_to_process[2]
    /\ request.got[1].kind = "exception"
    /\ YieldsRow(request.got[2])
    /\ Len(response.value) = 1
    /\ response.value[1].point = request.points_to_process[2]

\* C12: both fetch_data_from_api functions return the body text of a
\* response without an error status, return None after a request exception
\* or a 4xx/5xx status, and never raise.
C12_FetchReturnsBodyOrNone ==
    ( \/ Returned_By("traffic.fetch_data_from_api")
      \/ Returned_By("weather.fetch_data_from_api") ) =>
        /\ ~response.raised
        /\ response.value = IF Succeeds(request.got) THEN request.got.text ELSE None

\* C12 witness: the weather fetch met status 500 and returned None.
C12_Witness ==
    /\ Returned_By("weather.fetch_data_from_api")
    /\ request.got.kind = "response"
    /\ request.got.status = 500
    /\ response = Ret(None)

\* --------------------------------------------------------- loader claims
\* The column names of the batch a loader call appends: the frame's, and
\* for the traffic loader the two metadata columns it sets.
BatchNames(l) ==
    IF l.loader = "traffic"
    THEN Names(l.df.columns) \cup {"point", "extraction_timestamp"}
    ELSE Names(l.df.columns)

\* The cell of row r of a table in the column called name.
Cell(table, r, name) ==
    table.rows[r][CHOOSE k \in DOMAIN table.columns : table.columns[k].name = name]

\* C13: a non-empty batch whose column names are not exactly those of the
\* existing table is rejected with a store error and leaves the table as it
\* was.
C13_MismatchRejected ==
    \A n \in 1..Len(loads) :
        LET l == loads[n]
        IN  ( /\ l.before.exists
              /\ l.df.rows # <<>>
              /\ BatchNames(l) # Names(l.before.columns) )
            => l.error # "" /\ l.after = l.before

\* C14: a loader call that met a store error raised it to its caller.
C14_StoreErrorPropagates ==
    \A n \in 1..Len(loads) : loads[n].error # "" => loads[n].raised

\* C15: a loader call on a frame without rows executes nothing: it opens no
\* connection, runs no statement, meets no error, raises nothing and leaves
\* its table (absent or not) as it was.
C15_EmptyBatchNoOp ==
    \A n \in 1..Len(loads) :
        LET l == loads[n]
        IN  l.df.rows = <<>> =>
                /\ l.events = <<>>
                /\ l.error = ""
                /\ ~l.raised
                /\ l.after = l.before

\* C15 witness: the weather loader was handed an empty frame while its
\* table existed and held rows.
C15_Witness ==
    \E n \in 1..Len(loads) :
        /\ loads[n].loader = "weather"
        /\ loads[n].df.rows = <<>>
        /\ loads[n].before.exists
        /\ loads[n].before.rows # <<>>

\* C16: a loader call without a store failure on N >= 1 rows and an absent
\* table creates the table and leaves exactly N rows in it, row r holding
\* under every column name of the frame the cell of the frame's row r; the
\* traffic loader's point and extraction_timestamp columns hold the point
\* identifier and the load time.
C16_RoundTrip ==
    \A n \in 1..Len(loads) :
        LET l == loads[n]
        IN  ( ~l.before.exists /\ l.df.rows # <<>> /\ l.fault = "none" ) =>
                /\ l.error = ""
                /\ ~l.raised
                /\ l.after.exists
                /\ Names(l.after.columns) = BatchNames(l)
                /\ Len(l.after.rows) = Len(l.df.rows)
                /\ \A r \in 1..Len(l.df.rows) :
                      /\ \A k \in DOMAIN l.df.columns :
                            LET name == l.df.columns[k].name
                            IN  ( l.loader = "traffic"
                                  /\ name \in {"point", "extraction_timestamp"} )
                                \/ Cell(l.after, r, name) = l.df.rows[r][k]
                      /\ l.loader = "traffic" =>
                            /\ Cell(l.after, r, "point") = "10.0,20.0"
                            /\ Cell(l.after, r, "extraction_timestamp") = l.at

\* C16 witness: the weather loader created its table from a frame of two
\* different rows.
C16_Witness ==
    \E n \in 1..Len(loads) :
        /\ loads[n].loader = "weather"
        /\ ~loads[n].before.exists
        /\ Len(loads[n].df.rows) = 2
        /\ loads[n].df.rows[1] # loads[n].df.rows[2]
        /\ loads[n].after.rows = loads[n].df.rows

\* ---------------------------------------------------------- parser claims
IsNull(x) == x \in {None, NaN}

\* The parser was called on a body that is an XML document.
ParsedXml ==
    /\ Returned_By("parse_traffic_response_to_dataframe")
    /\ request.xml_data.py = "str"
    /\ request.xml_data.is = "xml"

\* The element carries text of the tag's documented type: some text, and a
\* numeral for the numeric tags.
WellTyped(tag, element) ==
    /\ element.present
    /\ element.v # <<>>
    /\ tag \in {"currentSpeed", "freeFlowSpeed", "currentTravelTime",
                "freeFlowTravelTime", "confidence"}
          => \A i \in DOMAIN element.v : IsDigit(element.v[i])

\* C17: for an XML body the traffic parser returns exactly one row with the
\* seven documented columns; a tag that is present with text of its type
\* gives a non-null field holding that text (frc) or its number (numeric
\* tags), an absent tag gives null, and roadClosure is a boolean, false
\* when absent.  A tag without text, or a numeric tag whose text is no
\* number, gives null as well.
C17_PresentTagsDecoded ==
    ParsedXml =>
        LET root == request.xml_data.root
            df == response.value
        IN  /\ ~response.raised
            /\ Len(df) = 1
            /\ DOMAIN df[1] = {"frc", "currentSpeed", "freeFlowSpeed", "currentTravelTime",
                               "freeFlowTravelTime", "confidence", "roadClosure"}
            /\ \A tag \in DOMAIN df[1] \ {"roadClosure"} :
                  /\ ~root[tag].present => IsNull(df[1][tag])
                  /\ WellTyped(tag, root[tag]) =>
                        /\ ~IsNull(df[1][tag])
                        /\ df[1][tag] = IF tag = "frc" THEN Str(root[tag].v) ELSE Num(50)
                  /\ (root[tag].present /\ ~WellTyped(tag, root[tag])) => IsNull(df[1][tag])
            /\ df[1].roadClosure \in {Bool(TRUE), Bool(FALSE)}
            /\ ~root.roadClosure.present => df[1].roadClosure = Bool(FALSE)

\* C17 witness: a body with frc and confidence, without currentSpeed and
\* roadClosure, was parsed.
C17_Witness ==
    /\ ParsedXml
    /\ request.xml_data.root.frc = Present(<<"F", "R", "C", "0">>)
    /\ request.xml_data.root.confidence = Present(<<"5", "0">>)
    /\ ~request.xml_data.root.currentSpeed.present
    /\ ~request.xml_data.root.roadClosure.present
    /\ response.value[1].frc = Str(<<"F", "R", "C", "0">>)
    /\ response.value[1].confidence = Num(50)
    /\ IsNull(response.value[1].currentSpeed)
    /\ response.value[1].roadClosure = Bool(FALSE)

\* The texts equal to "true" when case is ignored.
TrueTexts ==
    { t \in [1..4 -> {"t", "T", "r", "R", "u", "U", "e", "E"}] :
        /\ t[1] \in {"t", "T"} /\ t[2] \in {"r", "R"}
        /\ t[3] \in {"u", "U"} /\ t[4] \in {"e", "E"} }

\* C18: the roadClosure field is true exactly when the tag is present and
\* its text is "true" in some mix of upper and lower case.
C18_ClosureFlag ==
    ParsedXml =>
        LET element == request.xml_data.root.roadClosure
        IN  response.value[1].roadClosure
                = Bool(element.present /\ element.v \in TrueTexts)

\* C18 witness: the text "TRUE" was decoded to true.
C18_Witness ==
    /\ ParsedXml
    /\ request.xml_data.root.roadClosure = Present(<<"T", "R", "U", "E">>)
    /\ response.value[1].roadClosure = Bool(TRUE)

\* C19: neither parser raises, whatever the body; a missing or empty body
\* and a body that is not a document of the parser's format give zero rows,
\* and so does a JSON document that is not an object.
C19_MalformedYieldsNoRows ==
    /\ Returned_By("parse_traffic_response_to_dataframe") =>
          /\ ~response.raised
          /\ ( \/ request.xml_data.py = "None"
               \/ request.xml_data.is \in {"empty", "garbage", "json"} )
                => response.value = <<>>
    /\ Returned_By("parse_weather_response_to_dataframe") =>
          /\ ~response.raised
          /\ ( \/ request.json_data.py = "None"
               \/ request.json_data.is \in {"empty", "garbage", "xml"} )
                => response.value = <<>>
          /\ ( /\ request.json_data.py = "str"
               /\ request.json_data.is = "json"
               /\ request.json_data.data.json # "object" )
                => response.value = <<>>

\* C19 witness: the traffic parser was handed text that is no XML and
\* returned an empty frame.
C19_Witness ==
    /\ Returned_By("parse_traffic_response_to_dataframe")
    /\ request.xml_data = Garbage
    /\ response = Ret(<<>>)

\* The parser was called on a body that is a JSON object.
ParsedJsonObject ==
    /\ Returned_By("parse_weather_response_to_dataframe")
    /\ request.json_data.py = "str"
    /\ request.json_data.is = "json"
    /\ request.json_data.data.json = "object"

\* The "current" member is an object with at least one member.
HasCurrent(data) ==
    /\ data.current.present
    /\ data.current.v.json = "object"
    /\ \/ data.current.v.temperature.present
       \/ data.current.v.summary.present
       \/ data.current.v.icon.present
       \/ data.current.v.others > 0

\* C20: for a JSON object the weather parser returns zero rows when there
\* is no "current" member or it is empty (nor an object), and otherwise one
\* row with the descriptor's latitude, longitude and name and the
\* temperature, summary and icon members of "current" (None when missing);
\* the temperature is carried as a number: a numeral text becomes its
\* number and any other non-number becomes null.
C20_CurrentRow ==
    ParsedJsonObject =>
        LET data == request.json_data.data
            l == request.location_coords
            df == response.value
        IN  IF ~HasCurrent(data) THEN df = <<>>
            ELSE LET c == data.current.v
                     member(m) == IF m.present THEN m.v ELSE None
                 IN  /\ Len(df) = 1
                     /\ df[1].latitude = l.lat
                     /\ df[1].longitude = l.lon
                     /\ df[1].location_name = l.name
                     /\ df[1].weather_description = member(c.summary)
                     /\ df[1].weather_icon = member(c.icon)
                     /\ df[1].temperature_celsius =
                          CASE member(c.temperature) = Num(25) -> Num(25)
                            [] member(c.temperature) = Str(<<"5", "0">>) -> Num(50)
                            [] OTHER -> NaN

\* C20 witness: a document with a full "current" object was parsed for a
\* named location.
C20_Witness ==
    /\ ParsedJsonObject
    /\ HasCurrent(request.json_data.data)
    /\ request.location_coords.name # None
    /\ Len(response.value) = 1
    /\ response.value[1].temperature_celsius = Num(25)
    /\ response.value[1].weather_description = Str(<<"s", "u", "n", "n", "y">>)
    /\ response.value[1].weather_icon = Num(2)

\* C21: construct_weather_api_url raises ValueError whenever the descriptor
\* lacks the latitude, the longitude or both (the key missing or None), and
\* it does so before anything is asked of the requests library; a descriptor
\* with both coordinates yields the prepared URL carrying them.
C21_MissingCoordinateRaises ==
    Returned_By("construct_weather_api_url") =>
        LET c == request.location_coords
            lacks(m) == ~m.present \/ m.v = None
        IN  /\ (lacks(c.lat) \/ lacks(c.lon)) =>
                  /\ response.raised
                  /\ response.exc = "ValueError"
                  /\ response.events = <<>>
            /\ ~(lacks(c.lat) \/ lacks(c.lon)) =>
                  /\ ~response.raised
                  /\ response.value = [lat |-> c.lat.v, lon |-> c.lon.v]

\* C21 witness: a descriptor with a latitude and no longitude was refused.
C21_Witness ==
    /\ Returned_By("construct_weather_api_url")
    /\ request.location_coords.lat = Present(Num(10))
    /\ request.location_coords.lon = Absent
    /\ response.raised
    /\ response.events = <<>>

\* A numeric tag that is present with text that is no number.
Unparsable(element) ==
    /\ element.present
    /\ element.v # <<>>
    /\ \E i \in DOMAIN element.v : ~IsDigit(element.v[i])

\* C24: when a numeric tag of an XML body carries text that does not parse
\* as a number, the traffic parser does not raise and returns its one row;
\* the field of that tag is null (NaN) and every other field is what it is
\* for the same body with a number in that tag.
C24_UnparsableNumberIsNull ==
    ParsedXml =>
        \A tag \in numeric_cols :
            Unparsable(request.xml_data.root[tag]) =>
                LET root == request.xml_data.root
                    df == response.value
                    good == [root EXCEPT ![tag] = Present(<<"5", "0">>)]
                    other == parse_traffic_response_to_dataframe(Xml(good)).value
                IN  /\ ~response.raised
                    /\ Len(df) = 1
                    /\ df[1][tag] = NaN
                    /\ \A t \in DOMAIN df[1] \ {tag} : df[1][t] = other[1][t]
                    /\ other[1][tag] = Num(50)

\* C24 witness: a body whose currentSpeed is "n/a" and whose frc and
\* confidence are well formed was parsed.
C24_Witness ==
    /\ ParsedXml
    /\ request.xml_data.root.currentSpeed = Present(<<"n", "/", "a">>)
    /\ request.xml_data.root.frc = Present(<<"F", "R", "C", "0">>)
    /\ request.xml_data.root.confidence = Present(<<"5", "0">>)
    /\ ~response.raised
    /\ response.value[1].currentSpeed = NaN
    /\ response.value[1].frc = Str(<<"F", "R", "C", "0">>)
    /\ response.value[1].confidence = Num(50)

\* The batch a loader call hands to the store: the frame, for the traffic
\* loader with its two metadata columns set.
Batch(l) ==
    IF l.loader = "traffic"
    THEN SetColumn(SetColumn(l.df, "point", "VARCHAR", "10.0,20.0"),
                   "extraction_timestamp", "TIMESTAMP", l.at)
    ELSE l.df

\* The calls before call n that handed a non-empty batch to the same table
\* and whose CREATE the store did not refuse.
Received(n) ==
    { m \in 1..n : /\ loads[m].loader = loads[n].loader
                   /\ loads[m].df.rows # <<>>
                   /\ loads[m].fault \notin {"create", "connect"} }

\* C22: over a sequence of loader calls on one table, the table has the
\* columns of the first non-empty batch that reached it, whatever the
\* columns of later batches; a call that ends without a store error appends
\* exactly the rows of its batch after the rows already stored, and a call
\* that ends in a store error leaves the stored rows as they were.
C22_FirstBatchFixesColumns ==
    /\ \A n \in 1..Len(loads) :
          LET l == loads[n]
          IN  /\ l.after.exists <=> Received(n) # {}
              /\ l.after.exists =>
                    l.after.columns = Batch(loads[Min(Received(n))]).columns
              /\ l.before.exists => l.after.columns = l.before.columns
              /\ (l.df.rows # <<>> /\ l.error = "") =>
                    l.after.rows = l.before.rows \o Batch(l).rows
              /\ (l.df.rows = <<>> \/ l.error # "") => l.after.rows = l.before.rows
              /\ \A m \in 1..(n - 1) :
                    ( loads[m].loader = l.loader
                      /\ \A k \in (m + 1)..(n - 1) : loads[k].loader # l.loader )
                        => l.before = loads[m].after
    /\ \A t \in TableNames :
          LET on == { n \in 1..Len(loads) :
                        loads[n].loader = (IF t = TRAFFIC_TABLE_NAME THEN "traffic"
                                           ELSE "weather") }
          IN  store[t] = IF on = {} THEN NoTable
                         ELSE loads[CHOOSE n \in on : \A m \in on : m <= n].after

\* C22 witness: two calls appended to one table batches with different
\* column names; the table has the first batch's columns and the rows of
\* both.
C22_Witness ==
    /\ Len(loads) = 2
    /\ loads[1].loader = loads[2].loader
    /\ loads[1].error = "" /\ loads[2].error = ""
    /\ loads[1].df.rows # <<>> /\ loads[2].df.rows # <<>>
    /\ Names(Batch(loads[1]).columns) # Names(Batch(loads[2]).columns)
    /\ loads[2].after.columns = Batch(loads[1]).columns
    /\ loads[2].after.rows = Batch(loads[1]).rows \o Batch(loads[2]).rows

\* C23: extract_and_load_traffic_data returns True exactly when the row of
\* at least one point was extracted and loaded, so that after a True the
\* table holds at least one row more than before the call; it returns False
\* for an empty point list.
C23_TrueIffLoaded ==
    Returned_By("extract_and_load_traffic_data") =>
        /\ response.value = Bool(TRUE)
              <=> \E k \in DOMAIN response.errors : response.errors[k] = ""
        /\ response.value = Bool(TRUE)
              => Len(response.after.rows) > Len(response.before.rows)
        /\ request.points_to_process = <<>> => response.value = Bool(FALSE)

\* C25: the existence check and the creation are separate steps.  Of the
\* interleaved loader calls that observed the table absent, only one creates
\* it; every other one fails in its CREATE statement, ends with that error
\* and inserts none of its rows, so the table holds only the rows of the
\* calls whose INSERT ran.
C25_SecondCreateFails ==
    /\ \A w \in Loaders :
          ( loaders[w].observed = "absent" /\ loaders[w].pc \in {"insert", "done"}
            /\ ~loaders[w].created ) =>
              /\ loaders[w].pc = "done"
              /\ loaders[w].error = "create"
              /\ loaders[w].inserted = 0
    /\ \A v, w \in Loaders : (loaders[v].created /\ loaders[w].created) => v = w
    /\ Len(store[TRAFFIC_TABLE_NAME].rows)
          = SumOver([w \in Loaders |-> loaders[w].inserted], Loaders)

\* C25 witness: two calls both observed the table absent; one created the
\* table and inserted its rows, the other failed in CREATE and inserted
\* nothing.
C25_Witness ==
    \E v, w \in Loaders :
        /\ v # w
        /\ loaders[v].pc = "done" /\ loaders[w].pc = "done"
        /\ loaders[v].observed = "absent" /\ loaders[w].observed = "absent"
        /\ loaders[v].created /\ loaders[v].inserted = Len(loaders[v].df.rows)
        /\ loaders[w].error = "create" /\ loaders[w].inserted = 0
        /\ loaders[w].df.rows # <<>>
        /\ store[TRAFFIC_TABLE_NAME].rows = loaders[v].df.rows

\* ------------------------------------------------------- pipeline claims
\* C26: the summary table the pipeline's run_transformation fills has every
\* column the reporter selects, and a reporter call that follows a
\* successful transformation which left rows in the table produces a chart.
C26_ReporterFindsItsColumns ==
    /\ \A k \in 1..Len(summary) : ReporterColumns \subseteq DOMAIN summary[k]
    /\ \A k \in 1..Len(calls) :
          ( calls[k].fn = "run_visualization" /\ ~calls[k].raised /\ Len(summary) > 0 )
              => calls[k].chart

\* C27: the transform stage invokes run_transformation exactly when an
\* extract-load stage of this run reported success and both source tables
\* exist and hold rows; otherwise nothing is called and the summary table
\* is left as it is.
C27_TransformGate ==
    [][ (pc = "step3" /\ pc' = "step4") =>
            IF (traffic_etl_success \/ weather_etl_success) /\ ~SourceMissing
            THEN /\ Len(calls') = Len(calls) + 1
                 /\ calls'[Len(calls')].fn = "run_transformation"
                 /\ Len(runs') = Len(runs) + 1
            ELSE /\ calls' = calls
                 /\ runs' = runs
                 /\ summary' = summary
                 /\ transformation_success' = FALSE
      ]_vars

\* C27 witness: in a second run neither extract-load stage succeeded, both
\* source tables hold rows of the first run, and the transform stage was
\* passed without a call.
C27_Witness ==
    /\ pipeline_runs = 2
    /\ pc = "step4"
    /\ ~traffic_etl_success /\ ~weather_etl_success
    /\ ~SourceMissing
    /\ calls = <<>>
    /\ ~transformation_success

\* C30: at the end of a run the pipeline reports failure exactly when a
\* stage it called raised; stages that were skipped or loaded nothing leave
\* the report at success.
C30_FailureOnlyOnRaise ==
    /\ pipeline_success <=> \A k \in 1..Len(calls) : ~calls[k].raised
    /\ pc = "done" =>
          ( PipelineSummary = "failed" <=> \E k \in 1..Len(calls) : calls[k].raised )

\* C30 witness: a run ended in which both extractions failed, the
\* transformation and the reporter were skipped, and success is reported.
C30_Witness ==
    /\ pc = "done"
    /\ ~traffic_etl_success /\ ~weather_etl_success
    /\ ~transformation_success /\ ~visualization_success
    /\ calls = <<>>
    /\ PipelineSummary = "executed successfully"

\* ------------------------------------------------- transformation claims
\* One traffic row was stored per run for the point of a single weather
\* row: run 1 saw one row, run 2 sees that row and a second one.
RowPerRun ==
    /\ Len(runs) = 2
    /\ Succeeded = {1, 2}
    /\ Len(runs[1].traffic) = 1
    /\ Len(runs[2].traffic) = 2
    /\ Len(runs[2].weather) = 1
    /\ \A i \in 1..2 : AtCoordinates(runs[2].weather[1], runs[2].traffic[i])

SameName(r, i) ==
    { m \in 1..Len(r.weather) :
        r.weather[m].location_name = r.weather[r.join[i]].location_name }

\* C29: the joined weather row is the nearest in time among all weather
\* rows with the resolved location name, wherever they were recorded: when
\* a row of that name at other coordinates is strictly nearer than every
\* row of that name at the traffic row's coordinates, the traffic row is
\* joined with a row recorded at other coordinates.
C29_NearestByNameNotCoordinates ==
    \A n \in 1..Len(runs) :
        LET r == runs[n]
        IN  \A i \in Joined(r) :
                LET t == r.traffic[i]
                    w == r.weather[r.join[i]]
                    here == { m \in SameName(r, i) : AtCoordinates(r.weather[m], t) }
                    there == SameName(r, i) \ here
                IN  /\ here # {}
                    /\ \A m \in there :
                          time_diff_seconds(w, t) <= time_diff_seconds(r.weather[m], t)
                    /\ ( \E m \in there : \A h \in here :
                            time_diff_seconds(r.weather[m], t)
                                < time_diff_seconds(r.weather[h], t) )
                          => ~AtCoordinates(w, t)

\* C29 witness: a traffic row was joined with a weather row recorded at
\* coordinates other than its own.
C29_Witness ==
    \E n \in 1..Len(runs) :
        \E i \in Joined(runs[n]) :
            /\ ~AtCoordinates(runs[n].weather[runs[n].join[i]], runs[n].traffic[i])
            /\ \E h \in SameName(runs[n], i) :
                  AtCoordinates(runs[n].weather[h], runs[n].traffic[i])
====
